---- MODULE Spec2Model ----
(***************************************************************************)
(* A model of the XRV line reader of HerrDonUlt/xrave.  The repository     *)
(* holds three revisions of the same reader, each a program of its own:    *)
(*   xrv.rs     XRVReader::next / parse_next / links / parse_table_line    *)
(*   main.rs    XRVReader::next(meta) / fields                             *)
(*   newxrv.rs  LineLink, LineField, LineJump, TableLine, StyleLine,       *)
(*              RecordLine (TryFrom conversions)                           *)
(* Bytes are their ASCII codes; indices and spans are 0-based as in the    *)
(* source, At and Slice translate them to TLA+ sequences.                  *)
(***************************************************************************)
EXTENDS Integers, Sequences, FiniteSets, TLC

VARIABLES
    impl,     \* which revision runs: "xrv", "main" or "newxrv"
    file,     \* the bytes of the byte source (or the Vec<u8> given to newxrv)
    src,      \* the field lists the file was rendered from (<<>>: raw bytes)
    pos,      \* the reader's stream position
    line,     \* xrv.rs XRVReader.line
    cur,      \* the Line the last next() returned
    out,      \* the outcome of the last reader call
    pc,       \* where the run stands
    lk,       \* xrv.rs links(): state, seek, i, links, res
    nl,       \* newxrv.rs LineLink::try_from: state, seek, idx, k, pairs, res
    asm,      \* newxrv.rs assemblers' results
    calls,    \* xrv.rs next() calls that returned a line, and I/O errors met
    reg,      \* xrv.rs XRVReader.jumps, .tables, .styles
    mf,       \* main.rs fields(): the line, start and the result
    tl        \* xrv.rs parse_table_line(): the result

vars == <<impl, file, src, pos, line, cur, out, pc, lk, nl, asm, calls, reg, mf, tl>>

----------------------------------------------------------------------------
(* Bounds of the model.                                                    *)

\* raw files: every byte string over RawAlpha up to this length
MaxRaw == 4
\* rendered lines: at most this many fields after the kind field
MaxFields == 2
\* the linenum argument handed to links() ranges over 0..MaxLineNum
MaxLineNum == 1
\* at most this many calls of one run meet an I/O error of the byte source
MaxIoErrs == 1
\* and only in files of at most this many bytes
MaxFaultFile == 3

----------------------------------------------------------------------------
(* Byte constants of the source.                                           *)

TABLECHAR == 116
STYLECHAR == 115
RECORDCHAR == 114
COLON == 58
SPACE == 32
BRACKET == 34
CR == 13
NEWLINE == 10

COLON_CHAR == 58
QUOTE_CHAR == 34
SPACE_CHAR == 32
CR_CHAR == 13
NL_CHAR == 10

\* the other bytes that occur in the lines of the model
ch == [a |-> 97, b |-> 98, c |-> 99, d |-> 100, e |-> 101, f |-> 102, g |-> 103,
       h |-> 104, i |-> 105, j |-> 106, l |-> 108, m |-> 109, n |-> 110,
       o |-> 111, p |-> 112, r |-> 114, s |-> 115, t |-> 116, u |-> 117,
       x |-> 120, y |-> 121, A |-> 65, H |-> 72, M |-> 77, P |-> 80,
       T |-> 84, d0 |-> 48, d1 |-> 49, d2 |-> 50, d3 |-> 51, d4 |-> 52,
       dash |-> 45, plus |-> 43, bad |-> 255]

w_name == <<ch.n, ch.a, ch.m, ch.e>>
w_pos == <<ch.p, ch.o, ch.s>>
w_len == <<ch.l, ch.e, ch.n>>
w_jumps == <<ch.j, ch.u, ch.m, ch.p, ch.s>>
w_string == <<ch.s, ch.t, ch.r, ch.i, ch.n, ch.g>>
w_i32 == <<ch.i, ch.d3, ch.d2>>
w_tbl1 == <<ch.t, ch.b, ch.l, ch.d1>>
w_MyTable == <<ch.M, ch.y, SPACE, ch.T, ch.a, ch.b, ch.l, ch.e>>
w_Header == <<ch.H, ch.e, ch.a, ch.d, ch.e, ch.r>>
w_Position == <<ch.P, ch.o, ch.s, ch.i, ch.t, ch.i, ch.o, ch.n>>
w_entryA == <<ch.e, ch.n, ch.t, ch.r, ch.y, ch.A>>
w_float == <<ch.f, ch.l, ch.o, ch.a, ch.t>>
w_some == <<ch.s, ch.o, ch.m, ch.e>>
w_table == <<ch.t, ch.a, ch.b, ch.l, ch.e>>

----------------------------------------------------------------------------
(* Buffers: 0-based indexing and slicing as in Rust.                       *)

At(buf, i) == buf[i + 1]

\* buf[a..b]; Rust panics unless a <= b <= buf.len()
SliceOk(buf, a, b) == a >= 0 /\ a <= b /\ b <= Len(buf)
Slice(buf, a, b) == SubSeq(buf, a + 1, b)

RECURSIVE SeqsUpTo(_, _)
SeqsUpTo(S, n) ==
    IF n = 0 THEN {<<>>}
    ELSE LET shorter == SeqsUpTo(S, n - 1)
         IN shorter \cup {Append(s, b) : s \in {t \in shorter : Len(t) = n - 1}, b \in S}

----------------------------------------------------------------------------
(* The lines the model reads.  A rendered line is written from a list of   *)
(* fields (name, value, quoted) by the line grammar: fields joined by one  *)
(* space, a quoted value between double quotes, then the end of line.  The *)
(* field list is kept beside the file as the ground truth of the claims.   *)

F(n, v, q) == [name |-> n, value |-> v, quoted |-> q]

RenderField(f) ==
    f.name \o <<COLON>> \o
    (IF f.quoted THEN <<BRACKET>> \o f.value \o <<BRACKET>> ELSE f.value)

RECURSIVE RenderFields(_)
RenderFields(fl) ==
    IF fl = <<>> THEN <<>>
    ELSE IF Len(fl) = 1 THEN RenderField(fl[1])
    ELSE RenderField(fl[1]) \o <<SPACE>> \o RenderFields(Tail(fl))

RenderLine(l) == RenderFields(l.fl) \o l.eol

RECURSIVE RenderFile(_)
RenderFile(ls) ==
    IF ls = <<>> THEN <<>> ELSE RenderLine(Head(ls)) \o RenderFile(Tail(ls))

\* offset in its line of the first byte of field k (1-based k)
RECURSIVE FieldStart(_, _)
FieldStart(fl, k) ==
    IF k = 1 THEN 0
    ELSE FieldStart(fl, k - 1) + Len(RenderField(fl[k - 1])) + 1

NameStart(fl, k) == FieldStart(fl, k)
ValueStart(fl, k) ==
    FieldStart(fl, k) + Len(fl[k].name) + 1 + (IF fl[k].quoted THEN 1 ELSE 0)

FieldPool ==
    { F(<<ch.a>>, <<ch.d1>>, FALSE),
      F(<<ch.b>>, <<ch.d2>>, TRUE),
      F(<<ch.a, ch.b>>, <<ch.c, ch.d>>, FALSE),
      F(<<ch.c>>, <<ch.x, SPACE, ch.y>>, TRUE),
      F(<<ch.d>>, <<ch.x, COLON, ch.y>>, TRUE),
      F(<<ch.b>>, <<>>, TRUE) }

KindFields ==
    { F(<<k>>, <<ch.x>>, FALSE) : k \in {ch.j, ch.t, ch.s, ch.r, ch.a} }
    \cup { F(<<ch.t, ch.t>>, <<ch.x>>, FALSE), F(<<ch.r>>, w_tbl1, FALSE) }

SmallLists ==
    { <<k>> \o fs : k \in KindFields, fs \in SeqsUpTo(FieldPool, MaxFields) }

TableLists ==
    { <<F(<<ch.t>>, id, FALSE), nm, ps, ln>> \o cols :
        id \in {<<ch.x>>, w_tbl1},
        nm \in {F(w_name, w_MyTable, TRUE), F(w_name, <<ch.n>>, FALSE)},
        ps \in {F(w_pos, <<ch.d1, ch.d0>>, FALSE), F(w_pos, <<ch.d1>>, FALSE)},
        ln \in {F(w_len, <<ch.d2, ch.d0>>, FALSE), F(w_len, <<ch.d2>>, FALSE)},
        cols \in { <<>>,
                   <<F(<<ch.h>>, w_string, FALSE)>>,
                   <<F(w_Header, w_string, FALSE), F(w_Position, w_i32, FALSE)>> } }

\* a jumps line as LineJump::try_from reads it: the label `jumps` is the
\* value of the kind field, every other field is an entry <name>:<S>-<L>
JumpEntry(n, sk, ln) == F(n, sk \o <<ch.dash>> \o ln, FALSE)

JumpLists ==
    { <<F(<<k>>, lbl, FALSE)>> \o es :
        k \in {ch.j, ch.t},
        lbl \in {w_jumps, <<ch.x>>},
        es \in { <<JumpEntry(w_entryA, <<ch.d1, ch.d0, ch.d0>>, <<ch.d4, ch.d2>>)>>,
                 <<JumpEntry(<<ch.a>>, <<ch.d1>>, <<ch.d2>>),
                   JumpEntry(<<ch.b>>, <<ch.d3>>, <<ch.d4>>)>> } }

RecordLists ==
    { <<F(<<ch.r>>, w_tbl1, FALSE), F(<<ch.a>>, <<ch.d1>>, TRUE),
        F(<<ch.b>>, <<ch.d2>>, FALSE)>> }

\* jumps lines with an entry that is not <name>:<S>-<L>: no dash, a part
\* that is no number, bytes that are not UTF-8, after a good entry or alone
BadEntries ==
    { F(<<ch.a>>, <<ch.d1, ch.d0, ch.d0>>, FALSE),
      F(<<ch.a>>, <<ch.d1, ch.d0, ch.d0, ch.dash, ch.x, ch.y>>, FALSE),
      F(<<ch.a>>, <<ch.x, ch.y, ch.dash, ch.d1>>, FALSE),
      F(<<ch.a>>, <<ch.dash, ch.d1>>, FALSE),
      F(<<ch.a>>, <<ch.bad, ch.dash, ch.d1>>, FALSE),
      F(<<ch.bad>>, <<ch.d1, ch.dash, ch.d2>>, FALSE) }

BadJumpLists ==
    { <<F(<<ch.j>>, w_jumps, FALSE)>> \o good \o <<bad>> :
        good \in { <<>>, <<JumpEntry(<<ch.b>>, <<ch.d3>>, <<ch.d4>>)>> },
        bad \in BadEntries }
    \cup { <<F(<<ch.j>>, <<ch.bad>>, FALSE), JumpEntry(<<ch.b>>, <<ch.d3>>, <<ch.d4>>)>> }

\* table lines as TableLine::try_from reads a LineField: the id is the
\* value of the first field, then name, pos, len and the columns; with the
\* deviations of the prefix, type tags of every sort, and every shorter
\* line that is a beginning of one of them
FullTableLists ==
    { <<F(<<ch.t>>, <<ch.x>>, FALSE), F(<<ch.a>>, w_tbl1, FALSE), nm, ps, ln>> \o cols :
        nm \in {F(w_name, <<ch.n>>, FALSE), F(<<ch.n>>, <<ch.n>>, FALSE)},
        ps \in {F(w_pos, <<ch.d1, ch.d0>>, FALSE), F(<<ch.p>>, <<ch.d1>>, FALSE),
                F(w_pos, <<ch.x>>, FALSE)},
        ln \in {F(w_len, <<ch.d2, ch.d0>>, FALSE), F(<<ch.l>>, <<ch.d2>>, FALSE),
                F(w_len, <<ch.x>>, FALSE)},
        cols \in { <<>>,
                   <<F(<<ch.h>>, w_float, FALSE)>>,
                   <<F(w_Header, w_string, FALSE), F(w_Position, w_i32, FALSE)>>,
                   <<F(w_Header, w_string, FALSE), F(w_Position, w_float, FALSE)>> } }

FieldTableLists ==
    UNION { { SubSeq(fl, 1, n) : n \in 1..Len(fl) } : fl \in FullTableLists }

\* style and record lines with no field, one field, two fields
RowLists ==
    { <<F(<<k>>, w_tbl1, FALSE)>> \o fs :
        k \in {ch.s, ch.r},
        fs \in { <<>>, <<F(<<ch.a>>, <<ch.d1>>, TRUE)>>,
                 <<F(<<ch.a>>, <<ch.d1>>, TRUE), F(<<ch.b>>, <<ch.d2>>, FALSE)>> } }

\* the lines of the tests of main.rs
TestLists ==
    { <<F(w_some, <<ch.d0>>, FALSE), F(w_table, <<ch.d0>>, FALSE)>>,
      <<F(<<ch.t>>, w_some, FALSE), F(w_Header, w_string, FALSE),
        F(w_Position, w_i32, FALSE)>> }

\* a line with a quote in the middle of a bare value: t:x a:bc"d"
MidQuoteLists ==
    { <<F(<<ch.t>>, <<ch.x>>, FALSE),
        F(<<ch.a>>, <<ch.b, ch.c, BRACKET, ch.d, BRACKET>>, FALSE)>> }

GenLists ==
    SmallLists \cup TableLists \cup JumpLists \cup RecordLists \cup TestLists
    \cup MidQuoteLists

Eols == {<<NEWLINE>>, <<CR, NEWLINE>>}

GenLines == { [fl |-> fl, eol |-> eol] : fl \in GenLists, eol \in Eols }

\* a few files of two lines
PairLines ==
    { [fl |-> <<F(<<ch.t>>, <<ch.x>>, FALSE)>> \o fs, eol |-> <<NEWLINE>>] :
        fs \in { <<>>, <<F(<<ch.a>>, <<ch.d1>>, FALSE)>> } }
    \cup { [fl |-> <<F(<<ch.r>>, <<ch.x>>, FALSE), F(<<ch.b>>, <<ch.d2>>, TRUE)>>,
            eol |-> <<CR, NEWLINE>>] }

GenSrcs == { <<l>> : l \in GenLines } \cup { <<l1, l2>> : l1 \in PairLines, l2 \in PairLines }

RawAlpha == {ch.t, COLON, SPACE, BRACKET, CR, NEWLINE}
RawFiles == SeqsUpTo(RawAlpha, MaxRaw)

\* the line grammar: the kind field is one of j, t, s, r, names are not
\* empty and bare values are not empty
InGrammar(fl) ==
    /\ Len(fl) >= 1
    /\ fl[1].name \in {<<ch.j>>, <<ch.t>>, <<ch.s>>, <<ch.r>>}
    /\ \A k \in DOMAIN fl : fl[k].name # <<>> /\ (fl[k].quoted \/ fl[k].value # <<>>)
    /\ \A k \in DOMAIN fl : \A m \in DOMAIN fl[k].value :
          /\ fl[k].value[m] \notin {BRACKET, CR, NEWLINE}
          /\ ~fl[k].quoted => fl[k].value[m] \notin {COLON, SPACE}

----------------------------------------------------------------------------
(* The byte source: read_until(NEWLINE) from a stream position.            *)

\* index just past the line that starts at p: past its NEWLINE, or the end
RECURSIVE LineEnd(_, _)
LineEnd(f, p) ==
    IF p >= Len(f) THEN Len(f)
    ELSE IF At(f, p) = NEWLINE THEN p + 1
    ELSE LineEnd(f, p + 1)

ReadUntil(f, p) == Slice(f, p, LineEnd(f, p))

NoLine == [buffer |-> <<>>, start |-> 0, len |-> 0]
None == [tag |-> "none"]

----------------------------------------------------------------------------
(* xrv.rs: XRVReader::links, one loop iteration per step.                  *)

LinkLeft(seek, i) == [k |-> "Left", start |-> seek, len |-> i - seek]
LinkRight(seek, i) == [k |-> "Right", start |-> seek, len |-> i - seek]
LinkBracket(seek, i) == [k |-> "Bracket", start |-> seek, len |-> i - seek - 1]

\* LinksErr with the two numbers of the error in the other order
LinksErrSwapped(kind, linenum, i) ==
    [tag |-> "err", kind |-> kind, line |-> i, idx |-> linenum]

LinksErr(kind, linenum, i) ==
    [tag |-> "err", kind |-> kind, line |-> linenum, idx |-> i]

Running == [tag |-> "run"]
LinksOk == [tag |-> "ok"]

\* seek of a quoted value when its opening quote is met at i
BracketOpenSeek(i) == i

\* LinksByte with a space ending a quoted value as it ends a bare one
LinksByteSpaceCloses(s, byte, i) ==
    CASE byte = COLON /\ s.state = "ExpectMid" ->
            [s EXCEPT !.links = Append(@, LinkLeft(s.seek, i)),
                      !.seek = i + 1, !.state = "ExpectEnd"]
      [] byte = COLON /\ s.state = "ExpectBracket" -> s
      [] byte = COLON ->
            [s EXCEPT !.res = LinksErr("ExpectColon", s.linenum, i)]
      [] byte = BRACKET /\ s.state = "ExpectEnd" ->
            [s EXCEPT !.state = "ExpectBracket", !.seek = BracketOpenSeek(i)]
      [] byte = BRACKET /\ s.state = "ExpectBracket" ->
            [s EXCEPT !.links = Append(@, LinkBracket(s.seek, i)),
                      !.seek = i + 1, !.state = "ExpectStart"]
      [] byte = BRACKET ->
            [s EXCEPT !.res = LinksErr("ExpectEndNotMidOrStart", s.linenum, i)]
      [] byte = SPACE /\ s.state \in {"ExpectEnd", "ExpectBracket"} ->
            [s EXCEPT !.links = Append(@, LinkRight(s.seek, i)),
                      !.seek = i + 1, !.state = "ExpectStart"]
      [] byte = SPACE /\ s.state \in {"ExpectStart", "ExpectBracket"} -> s
      [] byte = SPACE ->
            [s EXCEPT !.res = LinksErr("ExpectSpace", s.linenum, i)]
      [] byte \in {CR, NEWLINE} /\ s.state = "ExpectEnd" ->
            [s EXCEPT !.links = Append(@, LinkRight(s.seek, i)), !.res = LinksOk]
      [] byte \in {CR, NEWLINE} /\ s.state = "ExpectStart" ->
            [s EXCEPT !.res = LinksOk]
      [] byte \in {CR, NEWLINE} ->
            [s EXCEPT !.res = LinksErr("NotExpectingNewline", s.linenum, i)]
      [] s.state \in {"ExpectMid", "ExpectEnd", "ExpectBracket"} -> s
      [] OTHER -> [s EXCEPT !.seek = i, !.state = "ExpectMid"]

\* LinksByte with the closing quote leaving the value open, as a byte of
\* a bare value does
LinksByteQuoteStaysInValue(s, byte, i) ==
    CASE byte = COLON /\ s.state = "ExpectMid" ->
            [s EXCEPT !.links = Append(@, LinkLeft(s.seek, i)),
                      !.seek = i + 1, !.state = "ExpectEnd"]
      [] byte = COLON /\ s.state = "ExpectBracket" -> s
      [] byte = COLON ->
            [s EXCEPT !.res = LinksErr("ExpectColon", s.linenum, i)]
      [] byte = BRACKET /\ s.state = "ExpectEnd" ->
            [s EXCEPT !.state = "ExpectBracket", !.seek = BracketOpenSeek(i)]
      [] byte = BRACKET /\ s.state = "ExpectBracket" ->
            [s EXCEPT !.links = Append(@, LinkBracket(s.seek, i)),
                      !.seek = i + 1, !.state = "ExpectEnd"]
      [] byte = BRACKET ->
            [s EXCEPT !.res = LinksErr("ExpectEndNotMidOrStart", s.linenum, i)]
      [] byte = SPACE /\ s.state = "ExpectEnd" ->
            [s EXCEPT !.links = Append(@, LinkRight(s.seek, i)),
                      !.seek = i + 1, !.state = "ExpectStart"]
      [] byte = SPACE /\ s.state \in {"ExpectStart", "ExpectBracket"} -> s
      [] byte = SPACE ->
            [s EXCEPT !.res = LinksErr("ExpectSpace", s.linenum, i)]
      [] byte \in {CR, NEWLINE} /\ s.state = "ExpectEnd" ->
            [s EXCEPT !.links = Append(@, LinkRight(s.seek, i)), !.res = LinksOk]
      [] byte \in {CR, NEWLINE} /\ s.state = "ExpectStart" ->
            [s EXCEPT !.res = LinksOk]
      [] byte \in {CR, NEWLINE} ->
            [s EXCEPT !.res = LinksErr("NotExpectingNewline", s.linenum, i)]
      [] s.state \in {"ExpectMid", "ExpectEnd", "ExpectBracket"} -> s
      [] OTHER -> [s EXCEPT !.seek = i, !.state = "ExpectMid"]

\* LinksByte with the value starting at the colon, not after it
LinksByteSeekAtColon(s, byte, i) ==
    CASE byte = COLON /\ s.state = "ExpectMid" ->
            [s EXCEPT !.links = Append(@, LinkLeft(s.seek, i)),
                      !.seek = i, !.state = "ExpectEnd"]
      [] byte = COLON /\ s.state = "ExpectBracket" -> s
      [] byte = COLON ->
            [s EXCEPT !.res = LinksErr("ExpectColon", s.linenum, i)]
      [] byte = BRACKET /\ s.state = "ExpectEnd" ->
            [s EXCEPT !.state = "ExpectBracket", !.seek = BracketOpenSeek(i)]
      [] byte = BRACKET /\ s.state = "ExpectBracket" ->
            [s EXCEPT !.links = Append(@, LinkBracket(s.seek, i)),
                      !.seek = i + 1, !.state = "ExpectStart"]
      [] byte = BRACKET ->
            [s EXCEPT !.res = LinksErr("ExpectEndNotMidOrStart", s.linenum, i)]
      [] byte = SPACE /\ s.state = "ExpectEnd" ->
            [s EXCEPT !.links = Append(@, LinkRight(s.seek, i)),
                      !.seek = i + 1, !.state = "ExpectStart"]
      [] byte = SPACE /\ s.state \in {"ExpectStart", "ExpectBracket"} -> s
      [] byte = SPACE ->
            [s EXCEPT !.res = LinksErr("ExpectSpace", s.linenum, i)]
      [] byte \in {CR, NEWLINE} /\ s.state = "ExpectEnd" ->
            [s EXCEPT !.links = Append(@, LinkRight(s.seek, i)), !.res = LinksOk]
      [] byte \in {CR, NEWLINE} /\ s.state = "ExpectStart" ->
            [s EXCEPT !.res = LinksOk]
      [] byte \in {CR, NEWLINE} ->
            [s EXCEPT !.res = LinksErr("NotExpectingNewline", s.linenum, i)]
      [] s.state \in {"ExpectMid", "ExpectEnd", "ExpectBracket"} -> s
      [] OTHER -> [s EXCEPT !.seek = i, !.state = "ExpectMid"]

\* the arm of `match (byte, &state)` taken for one byte at index i
LinksByte(s, byte, i) ==
    CASE byte = COLON /\ s.state = "ExpectMid" ->
            [s EXCEPT !.links = Append(@, LinkLeft(s.seek, i)),
                      !.seek = i + 1, !.state = "ExpectEnd"]
      [] byte = COLON /\ s.state = "ExpectBracket" -> s
      [] byte = COLON ->
            [s EXCEPT !.res = LinksErr("ExpectColon", s.linenum, i)]
      [] byte = BRACKET /\ s.state = "ExpectEnd" ->
            [s EXCEPT !.state = "ExpectBracket", !.seek = BracketOpenSeek(i)]
      [] byte = BRACKET /\ s.state = "ExpectBracket" ->
            [s EXCEPT !.links = Append(@, LinkBracket(s.seek, i)),
                      !.seek = i + 1, !.state = "ExpectStart"]
      [] byte = BRACKET ->
            [s EXCEPT !.res = LinksErr("ExpectEndNotMidOrStart", s.linenum, i)]
      [] byte = SPACE /\ s.state = "ExpectEnd" ->
            [s EXCEPT !.links = Append(@, LinkRight(s.seek, i)),
                      !.seek = i + 1, !.state = "ExpectStart"]
      [] byte = SPACE /\ s.state \in {"ExpectStart", "ExpectBracket"} -> s
      [] byte = SPACE ->
            [s EXCEPT !.res = LinksErr("ExpectSpace", s.linenum, i)]
      [] byte \in {CR, NEWLINE} /\ s.state = "ExpectEnd" ->
            [s EXCEPT !.links = Append(@, LinkRight(s.seek, i)), !.res = LinksOk]
      [] byte \in {CR, NEWLINE} /\ s.state = "ExpectStart" ->
            [s EXCEPT !.res = LinksOk]
      [] byte \in {CR, NEWLINE} ->
            [s EXCEPT !.res = LinksErr("NotExpectingNewline", s.linenum, i)]
      [] s.state \in {"ExpectMid", "ExpectEnd", "ExpectBracket"} -> s
      [] OTHER -> [s EXCEPT !.seek = i, !.state = "ExpectMid"]

LinksIdle ==
    [state |-> "ExpectMid", seek |-> 0, i |-> 0, links |-> <<>>,
     res |-> None, linenum |-> 0, buf |-> <<>>, hist |-> <<>>]

\* fn links(line, linenum): the locals before the loop
LinksStart(buf, linenum) ==
    [state |-> "ExpectMid", seek |-> 0, i |-> 0, links |-> <<>>,
     res |-> Running, linenum |-> linenum, buf |-> buf, hist |-> <<>>]

\* one iteration of `for (i, b) in it.enumerate()`, or the loop's end;
\* hist records the state each byte was matched in
LinksIter(s) ==
    IF s.i >= Len(s.buf) THEN [s EXCEPT !.res = LinksOk]
    ELSE LET t == [LinksByte(s, At(s.buf, s.i), s.i) EXCEPT !.hist = Append(@, s.state)]
         IN IF t.res.tag = "run" THEN [t EXCEPT !.i = s.i + 1] ELSE t

----------------------------------------------------------------------------
(* newxrv.rs: impl TryFrom<Vec<u8>> for LineLink, one loop iteration per   *)
(* step.  idx is the function's own counter, k the place of the byte in    *)
(* the buffer.                                                             *)

Pair(start, end) == [start |-> start, end |-> end]

NlErr(kind) == [tag |-> "err", kind |-> kind]
Panic(what) == [tag |-> "panic", kind |-> what]
Ok == [tag |-> "ok"]
Scanned == [tag |-> "scanned"]

\* `idx += 1`, the last statement of the loop body
IdxNext(idx) == idx + 1

\* the loop body for one byte; an arm that ends in `continue` leaves idx alone
LineLinkByte(s, byte) ==
    CASE s.state = "Name" ->
            IF byte \in {COLON_CHAR, QUOTE_CHAR, CR_CHAR, NL_CHAR}
            THEN [s EXCEPT !.res = NlErr("ExpectSpaceOrAlpha")]
            ELSE IF byte = SPACE_CHAR THEN s
            ELSE [s EXCEPT !.seek = s.idx, !.state = "Colon", !.idx = IdxNext(s.idx)]
      [] s.state = "Colon" ->
            IF byte = COLON_CHAR
            THEN [s EXCEPT !.pairs = Append(@, Pair(s.seek, s.idx)),
                           !.seek = s.idx + 1, !.state = "Value",
                           !.idx = IdxNext(s.idx)]
            ELSE IF byte = QUOTE_CHAR
            THEN [s EXCEPT !.res = NlErr("NameMustNotContainQoutes")]
            ELSE IF byte \in {SPACE_CHAR, CR_CHAR, NL_CHAR}
            THEN [s EXCEPT !.res = NlErr("NameMustFolowedByColon")]
            ELSE s
      [] s.state = "Value" ->
            IF byte \in {COLON_CHAR, SPACE_CHAR, CR_CHAR, NL_CHAR}
            THEN [s EXCEPT !.res = NlErr("ExpectAlpha")]
            ELSE IF byte = QUOTE_CHAR
            THEN [s EXCEPT !.seek = s.seek + 1, !.state = "Qoute",
                           !.idx = IdxNext(s.idx)]
            ELSE [s EXCEPT !.state = "Skip", !.idx = IdxNext(s.idx)]
      [] s.state = "Skip" ->
            IF byte \in {COLON_CHAR, QUOTE_CHAR}
            THEN [s EXCEPT !.res = NlErr("ExpectingSpaceOrNewline")]
            ELSE IF byte = SPACE_CHAR
            THEN [s EXCEPT !.pairs = Append(@, Pair(s.seek, s.idx)),
                           !.seek = s.idx, !.state = "Name",
                           !.idx = IdxNext(s.idx)]
            ELSE IF byte \in {CR_CHAR, NL_CHAR}
            THEN [s EXCEPT !.pairs = Append(@, Pair(s.seek, s.idx)),
                           !.res = Scanned]
            ELSE s
      [] OTHER -> \* "Qoute"
            IF byte \in {COLON_CHAR, SPACE_CHAR} THEN s
            ELSE IF byte \in {CR_CHAR, NL_CHAR}
            THEN [s EXCEPT !.res = NlErr("ExpectingQouteNotNewline")]
            ELSE IF byte = QUOTE_CHAR
            THEN [s EXCEPT !.pairs = Append(@, Pair(s.seek, s.idx)),
                           !.seek = s.idx + 1, !.state = "Skip",
                           !.idx = IdxNext(s.idx)]
            ELSE s

LineLinkStart(value) ==
    [state |-> "Name", seek |-> 0, idx |-> 0, k |-> 0, pairs |-> <<>>,
     res |-> Running, buf |-> value, kind |-> "", name |-> <<>>,
     links |-> <<>>, direct |-> FALSE]

LineLinkIdle == [LineLinkStart(<<>>) EXCEPT !.res = None]

\* one iteration of `for byte in &value`, or the loop's end
LineLinkIter(s) ==
    IF s.k >= Len(s.buf) THEN [s EXCEPT !.res = Scanned]
    ELSE LET t == LineLinkByte(s, At(s.buf, s.k))
         IN IF t.res.tag = "run" THEN [t EXCEPT !.k = s.k + 1] ELSE t

\* the match on the first pair's bytes
ClassifyKind(tag) ==
    CASE tag = <<ch.t>> -> "Table"
      [] tag = <<ch.s>> -> "Style"
      [] tag = <<ch.r>> -> "Record"
      [] OTHER -> "Unknown"

Link4(n, v) ==
    [name_start |-> n.start, name_end |-> n.end,
     value_start |-> v.start, value_end |-> v.end]

\* the pairs after the first two, taken two by two
RECURSIVE PairLinks(_)
PairLinks(ps) ==
    IF Len(ps) < 2 THEN <<>>
    ELSE <<Link4(ps[1], ps[2])>> \o PairLinks(SubSeq(ps, 3, Len(ps)))

\* the part of LineLink::try_from after the loop
LineLinkFinish(s) ==
    IF s.pairs = <<>> THEN [s EXCEPT !.res = NlErr("FailToGetLineKind")]
    ELSE IF ~SliceOk(s.buf, s.pairs[1].start, s.pairs[1].end)
    THEN [s EXCEPT !.res = Panic("slice")]
    ELSE LET kind == ClassifyKind(Slice(s.buf, s.pairs[1].start, s.pairs[1].end))
             rest == SubSeq(s.pairs, 3, Len(s.pairs))
         IN IF kind = "Unknown"
            THEN [s EXCEPT !.kind = kind, !.res = NlErr("UnkwnownLineKind")]
            ELSE IF Len(s.pairs) < 2
            THEN [s EXCEPT !.kind = kind, !.res = NlErr("FailToGetLineName")]
            ELSE IF ~SliceOk(s.buf, s.pairs[2].start, s.pairs[2].end)
            THEN [s EXCEPT !.kind = kind, !.res = Panic("slice")]
            ELSE IF Len(rest) % 2 = 1
            THEN [s EXCEPT !.kind = kind, !.res = NlErr("FailedToConsumePairs")]
            ELSE [s EXCEPT !.kind = kind,
                           !.name = Slice(s.buf, s.pairs[2].start, s.pairs[2].end),
                           !.links = PairLinks(rest),
                           !.res = Ok]

----------------------------------------------------------------------------
(* newxrv.rs: the conversions from a LineLink and from a LineField.        *)

\* std::str::from_utf8 on the bytes of the model: ASCII, or 0xFF which no
\* UTF-8 text holds
IsUtf8(bs) == \A k \in DOMAIN bs : bs[k] < 128

IsDigit(b) == b >= 48 /\ b <= 57

RECURSIVE DecValue(_)
DecValue(ds) ==
    IF ds = <<>> THEN 0 ELSE DecValue(SubSeq(ds, 1, Len(ds) - 1)) * 10 + (ds[Len(ds)] - 48)

\* str::parse::<usize>: an optional '+', then one digit or more
ParseUsize(bs) ==
    LET ds == IF bs # <<>> /\ bs[1] = ch.plus THEN Tail(bs) ELSE bs
    IN IF ds = <<>> \/ \E k \in DOMAIN ds : ~IsDigit(ds[k])
       THEN [ok |-> FALSE, val |-> 0]
       ELSE [ok |-> TRUE, val |-> DecValue(ds)]

\* str::split("-"): the parts between the dashes
RECURSIVE SplitDash(_)
SplitDash(bs) ==
    IF \A k \in DOMAIN bs : bs[k] # ch.dash THEN <<bs>>
    ELSE LET d == CHOOSE k \in DOMAIN bs :
                     bs[k] = ch.dash /\ \A m \in 1..(k - 1) : bs[m] # ch.dash
         IN <<SubSeq(bs, 1, d - 1)>> \o SplitDash(SubSeq(bs, d + 1, Len(bs)))

Field(n, v) == [name |-> n, value |-> v]

\* the loop of LineField::try_from over the links: the fields, or the
\* first failure
RECURSIVE LinkFields(_, _, _)
LinkFields(buf, links, acc) ==
    IF links = <<>> THEN [res |-> Ok, fields |-> acc]
    ELSE LET l == Head(links)
         IN IF ~SliceOk(buf, l.name_start, l.name_end)
            THEN [res |-> Panic("slice"), fields |-> <<>>]
            ELSE IF ~IsUtf8(Slice(buf, l.name_start, l.name_end))
            THEN [res |-> NlErr("CantParseFieldStrName"), fields |-> <<>>]
            ELSE IF ~SliceOk(buf, l.value_start, l.value_end)
            THEN [res |-> Panic("slice"), fields |-> <<>>]
            ELSE IF ~IsUtf8(Slice(buf, l.value_start, l.value_end))
            THEN [res |-> NlErr("CantParseFieldStrValue"), fields |-> <<>>]
            ELSE LinkFields(buf, Tail(links),
                            Append(acc, Field(Slice(buf, l.name_start, l.name_end),
                                              Slice(buf, l.value_start, l.value_end))))

\* impl TryFrom<LineLink> for LineField
LineFieldFrom(ll) ==
    IF ~IsUtf8(ll.name)
    THEN [res |-> NlErr("CantParseFieldName"), kind |-> ll.kind, name |-> <<>>,
          fields |-> <<>>]
    ELSE LET lf == LinkFields(ll.buf, ll.links, <<>>)
         IN [res |-> lf.res, kind |-> ll.kind, name |-> ll.name, fields |-> lf.fields]

\* which part of the split value the length is parsed from
JumpLenPart == 0

Jump(n, sk, ln) == [name |-> n, seek |-> sk, len |-> ln]

RECURSIVE LinkJumps(_, _, _)

\* LinkJumps handing out, on an error, the entries parsed before it
LinkJumpsKeepsParsed(buf, links, acc) ==
    IF links = <<>> THEN [res |-> Ok, jumps |-> acc]
    ELSE LET l == Head(links)
         IN IF ~SliceOk(buf, l.name_start, l.name_end)
            THEN [res |-> Panic("slice"), jumps |-> acc]
            ELSE IF ~IsUtf8(Slice(buf, l.name_start, l.name_end))
            THEN [res |-> NlErr("CantParseFieldStrName"), jumps |-> acc]
            ELSE IF ~SliceOk(buf, l.value_start, l.value_end)
            THEN [res |-> Panic("slice"), jumps |-> acc]
            ELSE IF ~IsUtf8(Slice(buf, l.value_start, l.value_end))
            THEN [res |-> NlErr("CantParseFieldStrValue"), jumps |-> acc]
            ELSE LET split == SplitDash(Slice(buf, l.value_start, l.value_end))
                     seek == ParseUsize(split[1])
                 IN IF ~seek.ok
                    THEN [res |-> NlErr("CantParseFieldUsizeValue"), jumps |-> acc]
                    ELSE IF JumpLenPart + 1 > Len(split)
                    THEN [res |-> Panic("index"), jumps |-> acc]
                    ELSE IF ~ParseUsize(split[JumpLenPart + 1]).ok
                    THEN [res |-> NlErr("CantParseFieldUsizeValue"), jumps |-> acc]
                    ELSE LinkJumps(buf, Tail(links),
                                   Append(acc, Jump(Slice(buf, l.name_start, l.name_end),
                                                    seek.val,
                                                    ParseUsize(split[JumpLenPart + 1]).val)))

\* the loop of LineJump::try_from over the links
LinkJumps(buf, links, acc) ==
    IF links = <<>> THEN [res |-> Ok, jumps |-> acc]
    ELSE LET l == Head(links)
         IN IF ~SliceOk(buf, l.name_start, l.name_end)
            THEN [res |-> Panic("slice"), jumps |-> <<>>]
            ELSE IF ~IsUtf8(Slice(buf, l.name_start, l.name_end))
            THEN [res |-> NlErr("CantParseFieldStrName"), jumps |-> <<>>]
            ELSE IF ~SliceOk(buf, l.value_start, l.value_end)
            THEN [res |-> Panic("slice"), jumps |-> <<>>]
            ELSE IF ~IsUtf8(Slice(buf, l.value_start, l.value_end))
            THEN [res |-> NlErr("CantParseFieldStrValue"), jumps |-> <<>>]
            ELSE LET split == SplitDash(Slice(buf, l.value_start, l.value_end))
                     seek == ParseUsize(split[1])
                 IN IF ~seek.ok
                    THEN [res |-> NlErr("CantParseFieldUsizeValue"), jumps |-> <<>>]
                    ELSE IF JumpLenPart + 1 > Len(split)
                    THEN [res |-> Panic("index"), jumps |-> <<>>]
                    ELSE IF ~ParseUsize(split[JumpLenPart + 1]).ok
                    THEN [res |-> NlErr("CantParseFieldUsizeValue"), jumps |-> <<>>]
                    ELSE LinkJumps(buf, Tail(links),
                                   Append(acc, Jump(Slice(buf, l.name_start, l.name_end),
                                                    seek.val,
                                                    ParseUsize(split[JumpLenPart + 1]).val)))

\* impl TryFrom<LineLink> for LineJump
LineJumpFrom(ll) ==
    IF ~IsUtf8(ll.name) THEN [res |-> NlErr("CantParseFieldName"), jumps |-> <<>>]
    ELSE IF ll.name = w_jumps THEN LinkJumps(ll.buf, ll.links, <<>>)
    ELSE [res |-> NlErr("ItsNotAJumpsLine"), jumps |-> <<>>]

NoTable == [id |-> <<>>, name |-> <<>>, pos |-> 0, len |-> 0, cols |-> <<>>]
TableErr(kind) == [res |-> NlErr(kind), val |-> NoTable]
TablePanic == [res |-> Panic("index"), val |-> NoTable]

\* impl TryFrom<LineField> for TableLine
TableLineFrom(lf) ==
    IF lf.kind # "Table" THEN TableErr("NotTableLine")
    ELSE IF Len(lf.fields) < 1 THEN TablePanic
    ELSE IF Len(lf.fields) < 2 THEN TablePanic
    ELSE IF lf.fields[2].name # w_name THEN TableErr("FirstTableFieldMustBeName")
    ELSE IF Len(lf.fields) < 3 THEN TablePanic
    ELSE IF lf.fields[3].name # w_pos THEN TableErr("SecondTableFieldMustBePos")
    ELSE IF ~ParseUsize(lf.fields[3].value).ok THEN TableErr("CantParseFieldUsizeValue")
    ELSE IF Len(lf.fields) < 4 THEN TablePanic
    ELSE IF lf.fields[4].name # w_len THEN TableErr("ThirdTableFieldMustBeLen")
    ELSE IF ~ParseUsize(lf.fields[4].value).ok THEN TableErr("CantParseFieldUsizeValue")
    ELSE [res |-> Ok,
          val |-> [id |-> lf.fields[1].value, name |-> lf.fields[2].value,
                   pos |-> ParseUsize(lf.fields[3].value).val,
                   len |-> ParseUsize(lf.fields[4].value).val,
                   cols |-> SubSeq(lf.fields, 5, Len(lf.fields))]]

NoRow == [id |-> <<>>, cols |-> <<>>]

\* the id and the columns StyleLine and RecordLine take from the fields
RowOf(fields) == [id |-> fields[1].value, cols |-> Tail(fields)]

\* impl TryFrom<LineField> for StyleLine
StyleLineFrom(lf) ==
    IF lf.kind # "Style" THEN [res |-> NlErr("NotStyleLine"), val |-> NoRow]
    ELSE IF Len(lf.fields) < 1 THEN [res |-> Panic("index"), val |-> NoRow]
    ELSE [res |-> Ok, val |-> RowOf(lf.fields)]

\* impl TryFrom<LineField> for RecordLine
RecordLineFrom(lf) ==
    IF lf.kind # "Record" THEN [res |-> NlErr("NotRecordLine"), val |-> NoRow]
    ELSE IF Len(lf.fields) < 1 THEN [res |-> Panic("index"), val |-> NoRow]
    ELSE [res |-> Ok, val |-> RowOf(lf.fields)]

----------------------------------------------------------------------------
(* main.rs: XRVReader::fields(line, start), the function the tests call    *)
(* parse_links.  A ref is a span {pos, len}, a link a name ref and a seek  *)
(* (value) ref, as the tests read them.                                    *)

\* the start the tests hand to parse_links
TestStart == 10

ReadRef(p, l) == [pos |-> p, len |-> l]
MainErr(kind, i) == [tag |-> "err", kind |-> kind, idx |-> i]

\* seek after the byte at i closed a name or a value, the byte kept
FieldsSeekSame(i) == i

\* `seek = i + 1` after the byte at i closed a name or a value
FieldsSeekNext(i) == i + 1

\* the arm of `match (byte, &state)` taken for one byte at index i
FieldsByte(s, byte, i) ==
    CASE byte = COLON /\ s.state = "ExpectMid" ->
            [s EXCEPT !.refs = Append(@, ReadRef(s.start + s.seek, i - s.seek)),
                      !.seek = FieldsSeekNext(i), !.state = "ExpectEnd"]
      [] byte = COLON -> [s EXCEPT !.res = MainErr("FstFailToParse", i)]
      [] byte = SPACE /\ s.state = "ExpectEnd" ->
            [s EXCEPT !.refs = Append(@, ReadRef(s.start + s.seek, i - s.seek)),
                      !.seek = FieldsSeekNext(i), !.state = "ExpectStart"]
      [] byte = SPACE -> [s EXCEPT !.res = MainErr("SndFailToParse", i)]
      [] byte \in {CR, NEWLINE} /\ s.state = "ExpectEnd" ->
            [s EXCEPT !.refs = Append(@, ReadRef(s.start + s.seek, i - s.seek)),
                      !.res = Scanned]
      [] s.state = "ExpectStart" ->
            IF byte \in {COLON, CR, NEWLINE}
            THEN [s EXCEPT !.res = MainErr("NextFailToParse", i)]
            ELSE IF byte = SPACE THEN s
            ELSE [s EXCEPT !.state = "ExpectMid"]
      [] OTHER -> s

\* `for (i, b) in it.enumerate()` from byte i on
RECURSIVE FieldsScan(_, _)
FieldsScan(s, i) ==
    IF i >= Len(s.buf) \/ s.res.tag # "run" THEN s
    ELSE FieldsScan(FieldsByte(s, At(s.buf, i), i), i + 1)

\* the loop over ref_it: the refs two by two, a name and its seek
RECURSIVE RefLinks(_, _)
RefLinks(refs, acc) ==
    IF refs = <<>> THEN [res |-> Ok, links |-> acc]
    ELSE IF Len(refs) = 1
    THEN [res |-> [tag |-> "err", kind |-> "FailedToConsumedRefs", idx |-> 0],
          links |-> <<>>]
    ELSE RefLinks(SubSeq(refs, 3, Len(refs)),
                  Append(acc, [name |-> refs[1], seek |-> refs[2]]))

FieldsIdle == [buf |-> <<>>, start |-> 0, at |-> 0, res |-> None, links |-> <<>>]

\* fn fields(line, start) on the Line read at offset `at`
FieldsOf(buf, start, at) ==
    LET s == FieldsScan([state |-> "ExpectMid", seek |-> 0, refs |-> <<>>,
                         res |-> Running, buf |-> buf, start |-> start], 0)
    IN IF s.res.tag = "err"
       THEN [buf |-> buf, start |-> start, at |-> at, res |-> s.res, links |-> <<>>]
       ELSE [buf |-> buf, start |-> start, at |-> at,
             res |-> RefLinks(s.refs, <<>>).res,
             links |-> RefLinks(s.refs, <<>>).links]

----------------------------------------------------------------------------
(* xrv.rs: XRVReader::parse_table_line on the links of a line.             *)

TlErr(kind, linenum, idx) == [tag |-> "err", kind |-> kind, line |-> linenum, idx |-> idx]

TableIdle == [res |-> None, cols |-> <<>>]

\* line_links[i] (0-based); Rust panics unless i < line_links.len()
LinkOk(links, i) == i < Len(links)

\* `cols_idx += 1` between the column's name and its type tag
ColsIdxNext(cols_idx) == cols_idx + 1

\* the `loop` over the column links from cols_idx on: an iteration that
\* finds Left then Right builds a Col and iterates again, with cols_idx
\* where the type tag is; nothing pushes the Col and nothing breaks
RECURSIVE ColsLoop(_, _, _)
ColsLoop(links, linenum, cols_idx) ==
    IF ~LinkOk(links, cols_idx) THEN Panic("index")
    ELSE IF At(links, cols_idx).k # "Left"
    THEN TlErr("FailToGetColName", linenum, cols_idx)
    ELSE IF ~LinkOk(links, ColsIdxNext(cols_idx)) THEN Panic("index")
    ELSE IF At(links, ColsIdxNext(cols_idx)).k # "Right"
    THEN TlErr("FailToGetColValue", linenum, ColsIdxNext(cols_idx))
    ELSE ColsLoop(links, linenum, ColsIdxNext(cols_idx))

\* a number field of the prefix: the Left at index n must address `word`,
\* the link after it must be a Right that addresses a usize
NumberField(buf, links, linenum, n, word, notword, notleft) ==
    IF ~LinkOk(links, n) THEN Panic("index")
    ELSE IF At(links, n).k # "Left" THEN TlErr(notleft, linenum, 4)
    ELSE IF Slice(buf, At(links, n).start, At(links, n).start + At(links, n).len) # word
    THEN TlErr(notword, linenum, 4)
    ELSE IF ~LinkOk(links, n + 1) THEN Panic("index")
    ELSE IF At(links, n + 1).k # "Right" THEN TlErr("FailToGetLinkRight", linenum, 5)
    ELSE LET v == Slice(buf, At(links, n + 1).start,
                        At(links, n + 1).start + At(links, n + 1).len)
         IN IF ~IsUtf8(v) THEN TlErr("FailGetStrFrombuffer", linenum, 5)
            ELSE IF ~ParseUsize(v).ok THEN TlErr("FailGetUsizeFromStr", linenum, 5)
            ELSE Ok

\* the name field: the Left at index 2 must address `name`, the link at
\* index 3 must be a Bracket
NameField(buf, links, linenum) ==
    IF ~LinkOk(links, 2) THEN Panic("index")
    ELSE IF At(links, 2).k # "Left" THEN TlErr("FailToGetTableName", linenum, 2)
    ELSE IF Slice(buf, At(links, 2).start, At(links, 2).start + At(links, 2).len) # w_name
    THEN TlErr("SecondFieldLeftMustBeName", linenum, 2)
    ELSE IF ~LinkOk(links, 3) THEN Panic("index")
    ELSE IF At(links, 3).k # "Bracket"
    THEN TlErr("TableNameMustBeInBrackets", linenum, 3)
    ELSE Ok

\* the id: the link at index 1 must be a Right
IdField(links, linenum) ==
    IF ~LinkOk(links, 1) THEN Panic("index")
    ELSE IF At(links, 1).k # "Right" THEN TlErr("FailToGetLinkRight", linenum, 1)
    ELSE Ok

\* fn parse_table_line(line, line_links, linenum): id, name, pos, len in
\* this order, each returning at its first failure, then the column loop
\* from index 8; the `Ok(table_line)` after the loop is never reached
ParseTableLine(buf, links, linenum) ==
    LET id == IdField(links, linenum)
        name == NameField(buf, links, linenum)
        ps == NumberField(buf, links, linenum, 4, w_pos,
                          "ThirdFieldLeftMustBePos", "FailToGetTablePos")
        ln == NumberField(buf, links, linenum, 6, w_len,
                          "ForthFieldLeftMustBeLen", "FailToGetTableLen")
    IN [res |-> IF id.tag # "ok" THEN id
                ELSE IF name.tag # "ok" THEN name
                ELSE IF ps.tag # "ok" THEN ps
                ELSE IF ln.tag # "ok" THEN ln
                ELSE ColsLoop(links, linenum, 8),
        cols |-> <<>>]

----------------------------------------------------------------------------
(* Initial states.                                                         *)

Impls == {"xrv", "main", "newxrv"}

\* the kind the format gives a kind tag
KindOfTag(tag) ==
    CASE tag = <<ch.j>> -> "Jump"
      [] tag = <<ch.t>> -> "Table"
      [] tag = <<ch.s>> -> "Style"
      [] tag = <<ch.r>> -> "Record"
      [] OTHER -> "Unknown"

\* the LineLink of a rendered line: the kind of its tag, the kind field's
\* value as name, and one link per later field, delimiting its name and
\* its value
DirectLink(l) ==
    [LineLinkStart(RenderLine(l)) EXCEPT
        !.res = Ok,
        !.kind = KindOfTag(l.fl[1].name),
        !.name = l.fl[1].value,
        !.links = [k \in 1..(Len(l.fl) - 1) |->
                      [name_start |-> NameStart(l.fl, k + 1),
                       name_end |-> NameStart(l.fl, k + 1) + Len(l.fl[k + 1].name),
                       value_start |-> ValueStart(l.fl, k + 1),
                       value_end |-> ValueStart(l.fl, k + 1) + Len(l.fl[k + 1].value)]],
        !.direct = TRUE]

\* the lines whose LineLink is handed to the conversions as it is
DirectLines ==
    { [fl |-> fl, eol |-> <<NEWLINE>>] :
        fl \in JumpLists \cup BadJumpLists \cup FieldTableLists \cup RowLists }

NoOutcome == [op |-> "none", tag |-> "none", kind |-> "", arg |-> 0, zero |-> FALSE]
NoLineField == [res |-> None, kind |-> "", name |-> <<>>, fields |-> <<>>]
AsmIdle == [op |-> "none", lf |-> NoLineField, res |-> None, val |-> <<>>]

\* XRVReader::new: no call yet, the three maps empty
NoCalls == [returned |-> 0, io |-> 0]
EmptyRegistry == [jumps |-> <<>>, tables |-> <<>>, styles |-> <<>>]

InitCommon ==
    /\ pos = 0
    /\ line = 0
    /\ cur = NoLine
    /\ out = NoOutcome
    /\ lk = LinksIdle
    /\ asm = AsmIdle
    /\ calls = NoCalls
    /\ reg = EmptyRegistry
    /\ mf = FieldsIdle
    /\ tl = TableIdle

\* a reader on a file, or a byte vector about to be converted
InitFile ==
    /\ impl \in Impls
    /\ \/ src \in GenSrcs /\ file = RenderFile(src)
       \/ src = <<>> /\ file \in RawFiles
    /\ pc = "idle"
    /\ nl = LineLinkIdle
    /\ InitCommon

\* a LineLink about to be converted
InitLink ==
    /\ impl = "newxrv"
    /\ \E l \in DirectLines :
          /\ src = <<l>>
          /\ file = RenderLine(l)
          /\ nl = DirectLink(l)
    /\ pc = "link"
    /\ InitCommon

Init == InitFile \/ InitLink

----------------------------------------------------------------------------
(* xrv.rs: the calls on the reader: next, parse_next, links and           *)
(* parse_table_line.                                                       *)

Outcome(op, tag, kind, arg, zero) ==
    [op |-> op, tag |-> tag, kind |-> kind, arg |-> arg, zero |-> zero]

\* the result of next() given the bytes read_until returned
NextOutcome(buffer, ln) ==
    IF Len(buffer) = 0
    THEN Outcome("next", "err", "ZeroLine", ln, TRUE)
    ELSE Outcome("next", "ok", "Line", ln + 1, FALSE)

\* the result of parse_next() given the bytes read_until returned
ParseNextOutcome(buffer, ln) ==
    IF Len(buffer) = 0
    THEN Outcome("parse_next", "err", "ZeroLine", ln, TRUE)
    ELSE CASE At(buffer, 0) = TABLECHAR ->
                 Outcome("parse_next", "panic", "todo table line", ln + 1, FALSE)
           [] At(buffer, 0) = STYLECHAR ->
                 Outcome("parse_next", "panic", "todo style line", ln + 1, FALSE)
           [] At(buffer, 0) = RECORDCHAR ->
                 Outcome("parse_next", "panic", "todo record line", ln + 1, FALSE)
           [] At(buffer, 0) \in {CR, NEWLINE} ->
                 Outcome("parse_next", "err", "EmptyLine", ln + 1, FALSE)
           [] OTHER ->
                 Outcome("parse_next", "err", "UnknownLine", ln + 1, FALSE)

\* ReadLine with `self.line += 1` in the zero-length arm too
ReadLineEveryCall(buffer) ==
    IF Len(buffer) = 0
    THEN /\ line' = line + 1
         /\ UNCHANGED <<cur, pos>>
    ELSE /\ cur' = [buffer |-> buffer, start |-> pos, len |-> Len(buffer)]
         /\ line' = line + 1
         /\ pos' = pos + Len(buffer)

\* ReadLine with the stream position taken after the read
ReadLineStartAfterRead(buffer) ==
    IF Len(buffer) = 0
    THEN UNCHANGED <<cur, line, pos>>
    ELSE /\ cur' = [buffer |-> buffer, start |-> pos + Len(buffer), len |-> Len(buffer)]
         /\ line' = line + 1
         /\ pos' = pos + Len(buffer)

\* what a next() that read `buffer` at pos does to the reader
ReadLine(buffer) ==
    IF Len(buffer) = 0
    THEN UNCHANGED <<cur, line, pos>>
    ELSE /\ cur' = [buffer |-> buffer, start |-> pos, len |-> Len(buffer)]
         /\ line' = line + 1
         /\ pos' = pos + Len(buffer)

\* the two calls of next() on the byte source that can fail
IoFaults == {"position", "read"}

IoErrKind(fault) ==
    IF fault = "position" THEN "FailToGetStreamPosition" ELSE "FailToReadUntil"

IoErrKinds == {IoErrKind(fault) : fault \in IoFaults}

\* how many bytes of the line the source has consumed when the call fails:
\* none for stream_position; for read_until any part of the line, all of
\* it only if the line has no NEWLINE (the read then fails looking for more)
Consumed(fault, buffer) ==
    IF fault = "position" THEN {0}
    ELSE (0..(Len(buffer) - 1))
         \cup (IF buffer = <<>> \/ buffer[Len(buffer)] # NEWLINE
               THEN {Len(buffer)} ELSE {})

\* next() returning Err(FailToGetStreamPosition) or Err(FailToReadUntil);
\* the lines read after it need not be lines of src any more
IoFail(op, fault) ==
    /\ calls.io < MaxIoErrs
    /\ Len(file) <= MaxFaultFile
    /\ out' = Outcome(op, "err", IoErrKind(fault), line, FALSE)
    /\ \E k \in Consumed(fault, ReadUntil(file, pos)) : pos' = pos + k
    /\ src' = <<>>
    /\ calls' = [calls EXCEPT !.io = @ + 1]
    /\ UNCHANGED <<cur, line>>

\* the count of the next() calls that returned Ok(Line)
Returned(buffer) ==
    [calls EXCEPT !.returned =
        IF NextOutcome(buffer, line).tag = "ok" THEN @ + 1 ELSE @]

Next_xrv ==
    /\ impl = "xrv"
    /\ pc \in {"idle", "line", "linked"}
    /\ \/ /\ out' = NextOutcome(ReadUntil(file, pos), line)
          /\ ReadLine(ReadUntil(file, pos))
          /\ calls' = Returned(ReadUntil(file, pos))
          /\ UNCHANGED src
       \/ \E fault \in IoFaults : IoFail("next", fault)
    /\ pc' = IF out'.tag = "ok" THEN "line" ELSE "idle"
    /\ lk' = LinksIdle
    /\ tl' = TableIdle
    /\ UNCHANGED <<impl, file, nl, asm, reg, mf>>

\* parse_next: `self.next()?`, then the match on line.buffer[0]; no arm
\* touches jumps, tables or styles
ParseNext ==
    /\ impl = "xrv"
    /\ pc \in {"idle", "line", "linked"}
    /\ \/ /\ out' = ParseNextOutcome(ReadUntil(file, pos), line)
          /\ ReadLine(ReadUntil(file, pos))
          /\ calls' = Returned(ReadUntil(file, pos))
          /\ UNCHANGED src
       \/ \E fault \in IoFaults : IoFail("parse_next", fault)
    /\ pc' = IF out'.tag = "panic" THEN "dead" ELSE "idle"
    /\ lk' = LinksIdle
    /\ tl' = TableIdle
    /\ UNCHANGED <<impl, file, nl, asm, reg, mf>>

LinksBegin ==
    /\ impl = "xrv"
    /\ pc = "line"
    /\ \E linenum \in 0..MaxLineNum : lk' = LinksStart(cur.buffer, linenum)
    /\ pc' = "links"
    /\ UNCHANGED <<impl, file, src, pos, line, cur, out, nl, asm, calls, reg, mf, tl>>

LinksStep ==
    /\ impl = "xrv"
    /\ pc = "links"
    /\ lk' = LinksIter(lk)
    /\ pc' = IF lk'.res.tag = "run" THEN "links" ELSE "linked"
    /\ UNCHANGED <<impl, file, src, pos, line, cur, out, nl, asm, calls, reg, mf, tl>>

\* parse_table_line on the Line next() returned and the links links()
\* returned for it, with the linenum links() was given
ParseTableLine_xrv ==
    /\ impl = "xrv"
    /\ pc = "linked"
    /\ lk.res.tag = "ok"
    /\ tl' = ParseTableLine(lk.buf, lk.links, lk.linenum)
    /\ pc' = IF tl'.res.tag = "panic" THEN "dead" ELSE "idle"
    /\ UNCHANGED <<impl, file, src, pos, line, cur, out, lk, nl, asm, calls, reg, mf>>

----------------------------------------------------------------------------
(* main.rs: XRVReader::next(meta).                                         *)

\* MainNextOutcome with the two arms of STYLECHAR under the other flag
MainNextOutcomeStyleSwapped(buffer, meta) ==
    IF Len(buffer) = 0
    THEN Outcome("main_next", "panic", "index out of bounds", 0, TRUE)
    ELSE CASE At(buffer, 0) = RECORDCHAR /\ meta ->
                 Outcome("main_next", "err", "NotMetaLine", Len(buffer), FALSE)
           [] At(buffer, 0) = RECORDCHAR ->
                 Outcome("main_next", "ok", "RecordLine", Len(buffer), FALSE)
           [] At(buffer, 0) = TABLECHAR /\ meta ->
                 Outcome("main_next", "ok", "TableLine", Len(buffer), FALSE)
           [] At(buffer, 0) = TABLECHAR ->
                 Outcome("main_next", "err", "NotRecordLine", Len(buffer), FALSE)
           [] At(buffer, 0) = STYLECHAR /\ meta ->
                 Outcome("main_next", "err", "NotRecordLine", Len(buffer), FALSE)
           [] At(buffer, 0) = STYLECHAR ->
                 Outcome("main_next", "ok", "StyleLine", Len(buffer), FALSE)
           [] OTHER ->
                 Outcome("main_next", "err", "UnknownLine", Len(buffer), FALSE)

\* the match on (buffer[0], meta) of the bytes read_until returned
MainNextOutcome(buffer, meta) ==
    IF Len(buffer) = 0
    THEN Outcome("main_next", "panic", "index out of bounds", 0, TRUE)
    ELSE CASE At(buffer, 0) = RECORDCHAR /\ meta ->
                 Outcome("main_next", "err", "NotMetaLine", Len(buffer), FALSE)
           [] At(buffer, 0) = RECORDCHAR ->
                 Outcome("main_next", "ok", "RecordLine", Len(buffer), FALSE)
           [] At(buffer, 0) = TABLECHAR /\ meta ->
                 Outcome("main_next", "ok", "TableLine", Len(buffer), FALSE)
           [] At(buffer, 0) = TABLECHAR ->
                 Outcome("main_next", "err", "NotRecordLine", Len(buffer), FALSE)
           [] At(buffer, 0) = STYLECHAR /\ meta ->
                 Outcome("main_next", "ok", "StyleLine", Len(buffer), FALSE)
           [] At(buffer, 0) = STYLECHAR ->
                 Outcome("main_next", "err", "NotRecordLine", Len(buffer), FALSE)
           [] OTHER ->
                 Outcome("main_next", "err", "UnknownLine", Len(buffer), FALSE)

\* the outcome of a call, with the meta flag the call was given
WithMeta(o, meta) == o @@ [meta |-> meta]

Next_main ==
    /\ impl = "main"
    /\ pc \in {"idle", "line"}
    /\ \/ /\ \E meta \in BOOLEAN :
                out' = WithMeta(MainNextOutcome(ReadUntil(file, pos), meta), meta)
          /\ pos' = pos + Len(ReadUntil(file, pos))
          /\ cur' = IF out'.tag = "ok"
                    THEN [buffer |-> ReadUntil(file, pos), start |-> pos,
                          len |-> Len(ReadUntil(file, pos))]
                    ELSE cur
          /\ UNCHANGED <<src, line, calls>>
       \/ \E fault \in IoFaults : IoFail("main_next", fault)
    /\ pc' = IF out'.tag = "panic" THEN "dead"
             ELSE IF out'.tag = "ok" THEN "line" ELSE "idle"
    /\ UNCHANGED <<impl, file, lk, nl, asm, reg, mf, tl>>

\* fields() on the Line next(meta) returned, with the start the caller
\* gives it: the Line's offset in the file, or the tests' start
Fields_main ==
    /\ impl = "main"
    /\ pc = "line"
    /\ \E start \in {cur.start, TestStart} :
          mf' = FieldsOf(cur.buffer, start, cur.start)
    /\ UNCHANGED <<impl, file, src, pos, line, cur, out, pc, lk, nl, asm, calls, reg, tl>>

----------------------------------------------------------------------------
(* newxrv.rs: the conversions, in the order a caller chains them.          *)

LineLinkBegin ==
    /\ impl = "newxrv"
    /\ pc = "idle"
    /\ nl' = LineLinkStart(file)
    /\ pc' = "scan"
    /\ UNCHANGED <<impl, file, src, pos, line, cur, out, lk, asm, calls, reg, mf, tl>>

LineLinkStep ==
    /\ impl = "newxrv"
    /\ pc = "scan"
    /\ nl' = LineLinkIter(nl)
    /\ pc' = CASE nl'.res.tag = "run" -> "scan"
               [] nl'.res.tag = "scanned" -> "scanned"
               [] OTHER -> "done"
    /\ UNCHANGED <<impl, file, src, pos, line, cur, out, lk, asm, calls, reg, mf, tl>>

LineLinkEnd ==
    /\ impl = "newxrv"
    /\ pc = "scanned"
    /\ nl' = LineLinkFinish(nl)
    /\ pc' = IF nl'.res.tag = "ok" THEN "link" ELSE "done"
    /\ UNCHANGED <<impl, file, src, pos, line, cur, out, lk, asm, calls, reg, mf, tl>>

TryLineField ==
    /\ impl = "newxrv"
    /\ pc = "link"
    /\ asm' = [op |-> "field", lf |-> LineFieldFrom(nl),
               res |-> LineFieldFrom(nl).res, val |-> <<>>]
    /\ pc' = IF asm'.res.tag = "ok" THEN "field" ELSE "done"
    /\ UNCHANGED <<impl, file, src, pos, line, cur, out, lk, nl, calls, reg, mf, tl>>

TryLineJump ==
    /\ impl = "newxrv"
    /\ pc = "link"
    /\ asm' = [op |-> "jump", lf |-> NoLineField,
               res |-> LineJumpFrom(nl).res, val |-> LineJumpFrom(nl).jumps]
    /\ pc' = "done"
    /\ UNCHANGED <<impl, file, src, pos, line, cur, out, lk, nl, calls, reg, mf, tl>>

TryTableLine ==
    /\ impl = "newxrv"
    /\ pc = "field"
    /\ asm' = [asm EXCEPT !.op = "table", !.res = TableLineFrom(asm.lf).res,
                          !.val = TableLineFrom(asm.lf).val]
    /\ pc' = "done"
    /\ UNCHANGED <<impl, file, src, pos, line, cur, out, lk, nl, calls, reg, mf, tl>>

TryStyleLine ==
    /\ impl = "newxrv"
    /\ pc = "field"
    /\ asm' = [asm EXCEPT !.op = "style", !.res = StyleLineFrom(asm.lf).res,
                          !.val = StyleLineFrom(asm.lf).val]
    /\ pc' = "done"
    /\ UNCHANGED <<impl, file, src, pos, line, cur, out, lk, nl, calls, reg, mf, tl>>

TryRecordLine ==
    /\ impl = "newxrv"
    /\ pc = "field"
    /\ asm' = [asm EXCEPT !.op = "record", !.res = RecordLineFrom(asm.lf).res,
                          !.val = RecordLineFrom(asm.lf).val]
    /\ pc' = "done"
    /\ UNCHANGED <<impl, file, src, pos, line, cur, out, lk, nl, calls, reg, mf, tl>>

----------------------------------------------------------------------------

Next ==
    \/ Next_xrv
    \/ ParseNext
    \/ LinksBegin
    \/ LinksStep
    \/ ParseTableLine_xrv
    \/ Next_main
    \/ Fields_main
    \/ LineLinkBegin
    \/ LineLinkStep
    \/ LineLinkEnd
    \/ TryLineField
    \/ TryLineJump
    \/ TryTableLine
    \/ TryStyleLine
    \/ TryRecordLine

Spec == Init /\ [][Next]_vars

----------------------------------------------------------------------------
(* Ground truth of the claims.                                             *)

\* the field list the current line of xrv.rs was rendered from
CurFl == src[line].fl

\* the field list of the first line, which newxrv.rs converts
FirstFl == src[1].fl

\* the bytes a span addresses, <<-1>> if it leaves the buffer
SpanBytes(buf, start, len) ==
    IF SliceOk(buf, start, start + len) THEN Slice(buf, start, start + len) ELSE <<-1>>

\* links() has returned
LinksReturned == impl = "xrv" /\ pc = "linked"

\* LineLink::try_from has returned on a byte vector
LineLinkReturned ==
    impl = "newxrv" /\ ~nl.direct /\ nl.res.tag \in {"ok", "err", "panic"}

\* a colon that ends a name, outside any quoted value, with CR or NL right
\* after it, and no end of line before it
MissingValue(buf) ==
    \E i \in 1..(Len(buf) - 2) :
        /\ At(buf, i) = COLON
        /\ At(buf, i - 1) \notin {COLON, SPACE}
        /\ At(buf, i + 1) \in {CR, NEWLINE}
        /\ \A j \in 0..(i - 1) : At(buf, j) \notin {BRACKET, CR, NEWLINE}

\* the transition table's error for a byte met in a state, "legal" if the
\* table has a transition
IllegalKind(byte, state) ==
    CASE byte = COLON /\ state \in {"ExpectEnd", "ExpectStart"} -> "ExpectColon"
      [] byte = SPACE /\ state = "ExpectMid" -> "ExpectSpace"
      [] byte \in {CR, NEWLINE} /\ state \in {"ExpectMid", "ExpectBracket"} ->
            "NotExpectingNewline"
      [] byte = BRACKET /\ state \in {"ExpectMid", "ExpectStart"} ->
            "ExpectEndNotMidOrStart"
      [] OTHER -> "legal"

\* the two sides of the dash of a jump entry's value
DashAt(v) == CHOOSE k \in DOMAIN v : v[k] = ch.dash
SeekText(v) == SubSeq(v, 1, DashAt(v) - 1)
LenText(v) == SubSeq(v, DashAt(v) + 1, Len(v))

\* the fields of a list from field k on, as (name, value) pairs
FieldsFrom(fl, k) == [m \in 1..(Len(fl) - k + 1) |-> Field(fl[m + k - 1].name, fl[m + k - 1].value)]

\* the errors LineLink::try_from returns from inside its loop
ScanErrors ==
    {"ExpectSpaceOrAlpha", "NameMustNotContainQoutes", "NameMustFolowedByColon",
     "ExpectAlpha", "ExpectingSpaceOrNewline", "ExpectingQouteNotNewline"}

----------------------------------------------------------------------------
(* The claims.                                                             *)

\* C1: for every line of the grammar, links() succeeds and its spans, two
\* by two in order, address the bytes of each field's name and of each
\* field's value (quotes excluded), no field dropped, added or reordered.
C1_LinksAddressFields ==
    (LinksReturned /\ src # <<>> /\ InGrammar(CurFl)) =>
        /\ lk.res.tag = "ok"
        /\ Len(lk.links) = 2 * Len(CurFl)
        /\ \A k \in 1..Len(CurFl) :
              /\ SpanBytes(lk.buf, lk.links[2 * k - 1].start, lk.links[2 * k - 1].len)
                    = CurFl[k].name
              /\ SpanBytes(lk.buf, lk.links[2 * k].start, lk.links[2 * k].len)
                    = CurFl[k].value

\* C2: every Bracket(start, len) of a line links() accepts starts just after the
\* opening quote and ends at the closing quote: the byte before start and
\* the byte at start + len are the two quotes.
C2_BracketBetweenQuotes ==
    (LinksReturned /\ lk.res.tag = "ok") =>
        \A k \in DOMAIN lk.links :
            lk.links[k].k = "Bracket" =>
                /\ lk.links[k].start >= 1
                /\ At(lk.buf, lk.links[k].start - 1) = BRACKET
                /\ lk.links[k].start + lk.links[k].len < Len(lk.buf)
                /\ At(lk.buf, lk.links[k].start + lk.links[k].len) = BRACKET

\* C3: for a jumps line, LineJump::try_from gives every entry
\* <name>:<S>-<L> the seek S and the length L.
C3_JumpSeekAndLength ==
    (impl = "newxrv" /\ nl.direct /\ asm.op = "jump" /\ nl.name = w_jumps
        /\ FirstFl \in JumpLists) =>
        /\ asm.res.tag = "ok"
        /\ Len(asm.val) = Len(FirstFl) - 1
        /\ \A k \in DOMAIN asm.val :
              /\ asm.val[k].name = FirstFl[k + 1].name
              /\ asm.val[k].seek = DecValue(SeekText(FirstFl[k + 1].value))
              /\ asm.val[k].len = DecValue(LenText(FirstFl[k + 1].value))

\* C4: a table line t:<id> name:<n> pos:<p> len:<l> <col>:<type> ... taken
\* through LineLink, LineField and TableLine::try_from yields the table
\* (id, n, p, l, the (col, type) pairs in order).
C4_TableLineAssembled ==
    (impl = "newxrv" /\ ~nl.direct /\ pc = "done" /\ src # <<>>
        /\ FirstFl \in TableLists /\ asm.op \in {"none", "field", "table"}) =>
        /\ asm.op = "table"
        /\ asm.res.tag = "ok"
        /\ asm.val = [id |-> FirstFl[1].value, name |-> FirstFl[2].value,
                      pos |-> DecValue(FirstFl[3].value),
                      len |-> DecValue(FirstFl[4].value),
                      cols |-> FieldsFrom(FirstFl, 5)]

\* C5: a record line r:<id> <f1>:<v1> ... taken through LineLink, LineField
\* and RecordLine::try_from yields the record with id <id> and the values
\* (f1, v1) .. (fn, vn) in order.
C5_RecordLineAssembled ==
    (impl = "newxrv" /\ ~nl.direct /\ pc = "done" /\ src # <<>>
        /\ InGrammar(FirstFl) /\ FirstFl[1].name = <<ch.r>> /\ Len(FirstFl) >= 2
        /\ asm.op \in {"none", "field", "record"}) =>
        /\ asm.op = "record"
        /\ asm.res.tag = "ok"
        /\ asm.val = [id |-> FirstFl[1].value, cols |-> FieldsFrom(FirstFl, 2)]

\* C6: the classifier maps the tag j to Jump, t to Table, s to Style, r to
\* Record and gives every other tag the unknown-kind error: in newxrv.rs
\* the kind LineLink::try_from finds, in xrv.rs the branch parse_next takes.
C6_KindOfTag ==
    /\ (LineLinkReturned /\ src # <<>> /\ nl.res.tag \in {"ok", "err"}
           /\ nl.res.kind \notin ScanErrors) =>
          IF KindOfTag(FirstFl[1].name) = "Unknown"
          THEN nl.res.tag = "err" /\ nl.res.kind = "UnkwnownLineKind"
          ELSE nl.kind = KindOfTag(FirstFl[1].name)
    /\ (impl = "xrv" /\ out.op = "parse_next" /\ src # <<>> /\ ~out.zero) =>
          (KindOfTag(CurFl[1].name) = "Unknown" <=> out.kind = "UnknownLine")

\* C7: a line in which a field's colon is immediately followed by CR or NL
\* is rejected by links() and by LineLink::try_from.
C7_MissingValueRejected ==
    /\ (LinksReturned /\ MissingValue(lk.buf)) => lk.res.tag = "err"
    /\ (LineLinkReturned /\ MissingValue(nl.buf)) => nl.res.tag = "err"

\* C8: when the scan of links() stops inside a quoted value or inside a
\* name, at CR or NL or at the end of the buffer, the result is an error.
C8_UnterminatedRejected ==
    (LinksReturned /\ lk.state \in {"ExpectBracket", "ExpectMid"}) =>
        lk.res.tag = "err"

\* C9: an error of links(line, linenum) carries linenum and the index of
\* the first byte the state machine has no transition for, and its kind is
\* the one the transition table names for that byte and state.
C9_ErrorKindAndPlace ==
    (LinksReturned /\ lk.res.tag = "err") =>
        /\ lk.res.line = lk.linenum
        /\ lk.res.idx < Len(lk.buf)
        /\ Len(lk.hist) = lk.res.idx + 1
        /\ IllegalKind(At(lk.buf, lk.res.idx), lk.hist[lk.res.idx + 1]) # "legal"
        /\ lk.res.kind = IllegalKind(At(lk.buf, lk.res.idx), lk.hist[lk.res.idx + 1])
        /\ \A j \in 0..(lk.res.idx - 1) :
              IllegalKind(At(lk.buf, j), lk.hist[j + 1]) = "legal"

\* C9 witness: links() called with linenum 1 fails on a newline inside a
\* quoted value, two bytes or more into the line.
C9_Witness ==
    /\ LinksReturned
    /\ lk.res.tag = "err"
    /\ lk.res.kind = "NotExpectingNewline"
    /\ lk.state = "ExpectBracket"
    /\ lk.linenum = 1
    /\ lk.res.idx >= 2

\* C10: when the read returns zero bytes, next() reports the end of the
\* stream: neither an error value nor a crash.
C10_EndOfStreamNotError ==
    out.zero => out.tag \notin {"err", "panic"}

\* C11: on an xrv.rs reader the line counter equals the number of next()
\* calls that returned a line: 0 at construction, one more for each line
\* returned, unchanged by a zero-length read or an I/O error.
C11_LineCountsReturnedLines ==
    impl = "xrv" => line = calls.returned

\* C11 witness: two lines returned, one call failed on an I/O error, and
\* the last call read zero bytes.
C11_Witness ==
    /\ impl = "xrv"
    /\ line = 2
    /\ calls.returned = 2
    /\ calls.io = 1
    /\ out.zero

\* parse_next() has just read the line cur
ParsedLine ==
    impl = "xrv" /\ out.op = "parse_next" /\ ~out.zero /\ out.kind \notin IoErrKinds

\* the bytes of a line's first value: from just after the first colon to
\* the first space, CR or NL after it
RECURSIVE BareEnd(_, _)
BareEnd(buf, i) ==
    IF i >= Len(buf) \/ At(buf, i) \in {SPACE, CR, NEWLINE} THEN i
    ELSE BareEnd(buf, i + 1)

LineId(buf) == Slice(buf, 2, BareEnd(buf, 2))

\* C12: parse_next() on a line whose first byte is t, s or r completes;
\* after a table or style line the tables or styles map holds an entry
\* under the line's id.
C12_ParseNextCompletes ==
    (ParsedLine /\ At(cur.buffer, 0) \in {TABLECHAR, STYLECHAR, RECORDCHAR}) =>
        /\ out.tag = "ok"
        /\ At(cur.buffer, 0) = TABLECHAR =>
              (Len(cur.buffer) >= 3 => LineId(cur.buffer) \in DOMAIN reg.tables)
        /\ At(cur.buffer, 0) = STYLECHAR =>
              (Len(cur.buffer) >= 3 => LineId(cur.buffer) \in DOMAIN reg.styles)

\* the type tags a column definition may carry
TypeTags == {w_string, w_i32}

\* C13: no table is produced from a table line that has a column whose
\* type tag is neither string nor i32.
C13_UnknownTypeTagRejected ==
    (impl = "newxrv" /\ asm.op = "table" /\ asm.res.tag = "ok") =>
        \A k \in DOMAIN asm.val.cols : asm.val.cols[k].value \in TypeTags

\* a decimal integer: one digit or more
IsDecimal(bs) == bs # <<>> /\ \A k \in DOMAIN bs : IsDigit(bs[k])

\* a jump entry's value <S>-<L>: one dash between two decimal integers
EntryWellFormed(v) ==
    \E d \in DOMAIN v :
        /\ v[d] = ch.dash
        /\ IsDecimal(SubSeq(v, 1, d - 1))
        /\ IsDecimal(SubSeq(v, d + 1, Len(v)))

\* LineJump::try_from has returned on a hand-made LineLink
JumpReturned == impl = "newxrv" /\ nl.direct /\ asm.op = "jump"

\* C14: LineJump::try_from returns an error when an entry's value has no
\* dash, or a part before or after the dash that is no decimal integer.
C14_MalformedEntryRejected ==
    (JumpReturned /\ \E k \in 2..Len(FirstFl) : ~EntryWellFormed(FirstFl[k].value)) =>
        asm.res.tag = "err"

\* TableLine::try_from has returned on a LineField of kind Table
TableReturned == impl = "newxrv" /\ asm.op = "table" /\ asm.lf.kind = "Table"

\* the fixed prefix of a table's fields: after the id, name, pos and len
\* in this order, pos and len with decimal values
PrefixOk(fields) ==
    /\ Len(fields) >= 4
    /\ fields[2].name = w_name
    /\ fields[3].name = w_pos
    /\ IsDecimal(fields[3].value)
    /\ fields[4].name = w_len
    /\ IsDecimal(fields[4].value)

\* C15: TableLine::try_from returns a table when the fixed prefix is as
\* required and only then; on every deviation it returns an error and no
\* table.
C15_PrefixDeviationRejected ==
    TableReturned =>
        IF PrefixOk(asm.lf.fields)
        THEN asm.res.tag = "ok"
        ELSE asm.res.tag = "err" /\ asm.val = NoTable

\* the field list of the line of src that starts at offset off of the file
RECURSIVE LineAt(_, _)
LineAt(ls, off) ==
    IF off <= 0 \/ Len(ls) = 1 THEN ls[1].fl
    ELSE LineAt(Tail(ls), off - Len(RenderLine(ls[1])))

\* a line of space-separated name:value tokens: no token holds a space,
\* a CR or a NL, and its only colon is the one after the name
TokenLine(fl) ==
    \A k \in DOMAIN fl :
        /\ \A m \in DOMAIN fl[k].name : fl[k].name[m] \notin {COLON, SPACE, CR, NEWLINE}
        /\ \A m \in DOMAIN fl[k].value : fl[k].value[m] \notin {COLON, SPACE, CR, NEWLINE}

\* fields() of main.rs has returned on a line of src
FieldsReturned == impl = "main" /\ mf.res.tag # "none" /\ src # <<>>

\* C16: for a line of k space-separated name:value fields, fields(line,
\* start) returns k entries in line order; each name span and each value
\* span has pos = start + the index of the token's first byte and len =
\* the token's length in bytes.
C16_FieldsSpans ==
    (FieldsReturned /\ TokenLine(LineAt(src, mf.at))) =>
        LET fl == LineAt(src, mf.at)
        IN /\ mf.res.tag = "ok"
           /\ Len(mf.links) = Len(fl)
           /\ \A k \in DOMAIN fl :
                 /\ mf.links[k].name =
                       ReadRef(mf.start + FieldStart(fl, k), Len(fl[k].name))
                 /\ mf.links[k].seek =
                       ReadRef(mf.start + FieldStart(fl, k) + Len(fl[k].name) + 1,
                               Len(RenderField(fl[k])) - Len(fl[k].name) - 1)

\* C16 witness: the line and the start of parse_table_line_test, with the
\* spans the test expects of the second entry.
C16_Witness ==
    /\ FieldsReturned
    /\ mf.res.tag = "ok"
    /\ mf.start = TestStart
    /\ Len(mf.links) = 3
    /\ mf.links[2].name = ReadRef(17, 6)
    /\ mf.links[2].seek = ReadRef(24, 6)

\* the quote at index i is where the format allows one: it closes a quoted
\* value, or it is the byte right after the colon that ended a name
QuoteInPlace(buf, hist, i) ==
    \/ hist[i + 1] = "ExpectBracket"
    \/ i >= 1 /\ At(buf, i - 1) = COLON /\ hist[i] = "ExpectMid"

\* C17: every quote links() meets anywhere else, as the one after the bare
\* bytes bc of a:bc"d", ends the scan with an error at that quote.
C17_QuoteOnlyAfterColon ==
    LinksReturned =>
        \A i \in 0..(Len(lk.hist) - 1) :
            (At(lk.buf, i) = BRACKET /\ ~QuoteInPlace(lk.buf, lk.hist, i)) =>
                lk.res.tag = "err" /\ lk.res.idx = i

\* links() is about to match a byte inside a quoted value
InQuoted ==
    impl = "xrv" /\ pc = "links" /\ lk.i < Len(lk.buf) /\ lk.state = "ExpectBracket"

\* C18: inside a quoted value a space or a colon changes neither the state
\* nor seek, emits no span and raises no error; only a double quote ends
\* the quoted value and emits its span.
C18_QuotedContentLiteral ==
    [][InQuoted =>
          /\ At(lk.buf, lk.i) \in {SPACE, COLON} =>
                /\ lk'.state = "ExpectBracket"
                /\ lk'.seek = lk.seek
                /\ lk'.links = lk.links
                /\ lk'.res.tag = "run"
          /\ (lk'.state # "ExpectBracket" \/ lk'.links # lk.links) =>
                At(lk.buf, lk.i) = BRACKET]_vars

\* C18 witness: links() has returned the spans of a line with two quoted
\* values, having met a space in one and a colon in the other.
C18_Witness ==
    /\ LinksReturned
    /\ lk.res.tag = "ok"
    /\ Len(lk.links) = 6
    /\ lk.links[4].k = "Bracket"
    /\ lk.links[6].k = "Bracket"
    /\ \E i \in 0..(Len(lk.hist) - 1) :
          At(lk.buf, i) = SPACE /\ lk.hist[i + 1] = "ExpectBracket"
    /\ \E i \in 0..(Len(lk.hist) - 1) :
          At(lk.buf, i) = COLON /\ lk.hist[i + 1] = "ExpectBracket"

\* C19: given a line with fewer fields than they read (a Table line of
\* fewer than four fields, a Style or Record line of none), the assemblers
\* of newxrv.rs return an error.
C19_TooFewFieldsRejected ==
    impl = "newxrv" =>
        /\ (asm.op = "table" /\ asm.lf.kind = "Table" /\ Len(asm.lf.fields) < 4) =>
              asm.res.tag = "err"
        /\ (asm.op = "style" /\ asm.lf.kind = "Style" /\ Len(asm.lf.fields) = 0) =>
              asm.res.tag = "err"
        /\ (asm.op = "record" /\ asm.lf.kind = "Record" /\ Len(asm.lf.fields) = 0) =>
              asm.res.tag = "err"

\* C20: when LineJump::try_from does not return Ok the caller has no Jump
\* of the line; when it returns Ok it hands out one Jump for every entry
\* of the line, in order.
C20_JumpAllOrNothing ==
    (impl = "newxrv" /\ asm.op = "jump") =>
        /\ asm.res.tag # "ok" => asm.val = <<>>
        /\ asm.res.tag = "ok" =>
              /\ Len(asm.val) = Len(nl.links)
              /\ \A k \in DOMAIN asm.val :
                    asm.val[k].name =
                        Slice(nl.buf, nl.links[k].name_start, nl.links[k].name_end)

\* C20 witness: a jumps line of two entries, the first well formed, the
\* second with a seek that is no number: an error and no Jump.
C20_Witness ==
    /\ JumpReturned
    /\ nl.name = w_jumps
    /\ Len(nl.links) = 2
    /\ EntryWellFormed(FirstFl[2].value)
    /\ asm.res.tag = "err"
    /\ asm.res.kind = "CantParseFieldUsizeValue"
    /\ asm.val = <<>>

\* parse_table_line has returned (or aborted) on the current line of src
TableParsed == impl = "xrv" /\ tl.res.tag # "none" /\ src # <<>>

\* a well-formed table line as parse_table_line reads it: t:<id>, name
\* with a quoted value, pos and len with decimal values, then the columns
WellFormedTable(fl) == fl \in TableLists /\ fl[2].quoted

\* C21: for every well-formed table line parse_table_line returns a table
\* with one column per (name, type) pair of the line, a line of no column
\* included: it does not run past the end of the links and it does not
\* fail on the column list.
C21_ParseTableLineReturns ==
    (TableParsed /\ WellFormedTable(CurFl)) =>
        /\ tl.res.tag = "ok"
        /\ Len(tl.cols) = Len(CurFl) - 4
        /\ \A k \in DOMAIN tl.cols : tl.cols[k].name = CurFl[k + 4].name

\* LineLink::try_from is about to process the byte at index nl.k
Scanning == impl = "newxrv" /\ pc = "scan" /\ nl.k < Len(nl.buf)

\* the names and the values of a field list
Tokens(fl) == {fl[k].name : k \in DOMAIN fl} \cup {fl[k].value : k \in DOMAIN fl}

\* a line of the grammar with bare values only
BareLine(fl) == InGrammar(fl) /\ \A k \in DOMAIN fl : ~fl[k].quoted

\* C22: in LineLink::try_from idx equals, when a byte is about to be
\* processed, that byte's index in the buffer; and every pair recorded for
\* a line of bare values delimits one of the line's names or values.
C22_IdxIsByteIndex ==
    /\ Scanning => nl.idx = nl.k
    /\ (impl = "newxrv" /\ ~nl.direct /\ src # <<>> /\ BareLine(FirstFl)) =>
          \A p \in DOMAIN nl.pairs :
              SpanBytes(nl.buf, nl.pairs[p].start, nl.pairs[p].end - nl.pairs[p].start)
                  \in Tokens(FirstFl)

\* LineLink::try_from has returned on a line of the grammar whose kind it
\* knows
GrammarLineLinked ==
    /\ LineLinkReturned
    /\ src # <<>>
    /\ InGrammar(FirstFl)
    /\ FirstFl[1].name \in {<<ch.t>>, <<ch.s>>, <<ch.r>>}

\* C23: for a line of the kind field plus k fields LineLink::try_from
\* records 2k+2 pairs, one for each name and one for each value, quoted
\* values included, and returns k links.
C23_OnePairPerToken ==
    GrammarLineLinked =>
        /\ Len(nl.pairs) = 2 * Len(FirstFl)
        /\ nl.res.tag = "ok"
        /\ Len(nl.links) = Len(FirstFl) - 1

\* links() stopped at a CR or a NL and returned Ok
EndedAtEol ==
    /\ LinksReturned
    /\ lk.res.tag = "ok"
    /\ lk.i < Len(lk.buf)
    /\ At(lk.buf, lk.i) \in {CR, NEWLINE}

\* C24: the list links() builds alternates name and value spans: its
\* elements 0, 2, 4, ... are Left, its elements 1, 3, 5, ... are Right or
\* Bracket; when the scan ends on a CR or NL with success the list has an
\* even length.
C24_LinksAlternate ==
    impl = "xrv" =>
        /\ \A k \in DOMAIN lk.links :
              IF k % 2 = 1 THEN lk.links[k].k = "Left"
              ELSE lk.links[k].k \in {"Right", "Bracket"}
        /\ EndedAtEol => Len(lk.links) % 2 = 0

\* C24 witness: links() returns six spans for a line that ends in CR NL,
\* the second value quoted and the third bare.
C24_Witness ==
    /\ EndedAtEol
    /\ At(lk.buf, lk.i) = CR
    /\ Len(lk.links) = 6
    /\ lk.links[4].k = "Bracket"
    /\ lk.links[6].k = "Right"

\* the index just past a span
SpanEnd(l) == l.start + l.len

\* the byte links() matched at index j is the colon that ended a name, or
\* a space between two fields
Separator(buf, hist, j) ==
    \/ At(buf, j) = COLON /\ hist[j + 1] = "ExpectMid"
    \/ At(buf, j) = SPACE /\ hist[j + 1] \in {"ExpectEnd", "ExpectStart"}

\* the indices of the colons after the names and of the spaces between the
\* fields of a rendered line
SeparatorsOf(fl) ==
    {NameStart(fl, k) + Len(fl[k].name) : k \in DOMAIN fl}
    \cup {FieldStart(fl, k) - 1 : k \in 2..Len(fl)}

\* C25: every span links() emits lies inside the line's buffer; the spans
\* of a line are pairwise disjoint and come in strictly increasing order
\* of start; no span holds a colon that separates a name from its value or
\* a space that separates two fields.
C25_SpansInsideAndDisjoint ==
    impl = "xrv" =>
        /\ \A k \in DOMAIN lk.links :
              /\ lk.links[k].start >= 0
              /\ lk.links[k].len >= 0
              /\ SpanEnd(lk.links[k]) <= Len(lk.buf)
        /\ \A k \in 1..(Len(lk.links) - 1) :
              /\ lk.links[k].start < lk.links[k + 1].start
              /\ SpanEnd(lk.links[k]) <= lk.links[k + 1].start
        /\ \A k \in DOMAIN lk.links :
              \A j \in lk.links[k].start..(SpanEnd(lk.links[k]) - 1) :
                  /\ j < Len(lk.hist) => ~Separator(lk.buf, lk.hist, j)
                  /\ (src # <<>> /\ pc \in {"links", "linked"} /\ InGrammar(CurFl)) =>
                        j \notin SeparatorsOf(CurFl)

\* C25 witness: links() returns the four spans of the second line of a
\* file, a line with a bare and a quoted value.
C25_Witness ==
    /\ LinksReturned
    /\ lk.res.tag = "ok"
    /\ src # <<>>
    /\ line = 2
    /\ cur.start > 0
    /\ Len(lk.links) = 4
    /\ lk.links[2].k = "Right"
    /\ lk.links[4].k = "Bracket"
    /\ lk.links[4].len >= 1

\* the last call of next(), alone or inside parse_next(), returned a Line
LastReturned ==
    /\ impl = "xrv"
    /\ out.op \in {"next", "parse_next"}
    /\ ~out.zero
    /\ out.kind \notin IoErrKinds

\* C26: a Line that next() returns has len = the number of bytes of its
\* buffer, and its buffer is the bytes of the file from start, up to and
\* with the newline; the Line of a reader's first call has start 0, and
\* the Line of a call that follows a successful call has start = the
\* previous start + the previous len.
C26_LinesChainInFileOrder ==
    [][(impl = "xrv" /\ calls'.returned = calls.returned + 1) =>
          /\ cur'.len = Len(cur'.buffer)
          /\ cur'.len >= 1
          /\ SliceOk(file, cur'.start, cur'.start + cur'.len)
          /\ cur'.buffer = Slice(file, cur'.start, cur'.start + cur'.len)
          /\ \A j \in 1..(cur'.len - 1) : cur'.buffer[j] # NEWLINE
          /\ (cur'.buffer[cur'.len] = NEWLINE \/ cur'.start + cur'.len = Len(file))
          /\ out = NoOutcome => cur'.start = 0
          /\ LastReturned => cur'.start = cur.start + cur.len]_vars

\* C26 witness: the second of two successful calls has returned the second
\* line of a file of two lines, which starts where the first line ends.
C26_Witness ==
    /\ impl = "xrv"
    /\ src # <<>>
    /\ Len(src) = 2
    /\ out.op = "next"
    /\ out.tag = "ok"
    /\ calls.returned = 2
    /\ cur.start = Len(RenderLine(src[1]))
    /\ cur.start + cur.len = Len(file)
    /\ pos = Len(file)

\* next(meta) of main.rs has read a line of one byte or more: the bytes of
\* the file before pos, out.arg of them
MainRead ==
    /\ impl = "main"
    /\ out.op = "main_next"
    /\ out.kind \notin IoErrKinds
    /\ ~out.zero

MainFirstByte == At(file, pos - out.arg)

\* the result the first byte and the meta flag call for
MetaResult(byte, meta) ==
    IF meta
    THEN CASE byte = ch.t -> <<"ok", "TableLine">>
           [] byte = ch.s -> <<"ok", "StyleLine">>
           [] byte = ch.r -> <<"err", "NotMetaLine">>
           [] OTHER -> <<"err", "UnknownLine">>
    ELSE CASE byte = ch.r -> <<"ok", "RecordLine">>
           [] byte \in {ch.t, ch.s} -> <<"err", "NotRecordLine">>
           [] OTHER -> <<"err", "UnknownLine">>

\* C27: on a non-empty line next(meta) of main.rs returns what the line's
\* first byte and meta call for: with meta, TableLine for t, StyleLine for
\* s, the error NotMetaLine for r; without meta, RecordLine for r, the
\* error NotRecordLine for t and s; UnknownLine for every other byte.
C27_NextByFirstByteAndMeta ==
    MainRead =>
        /\ <<out.tag, out.kind>> = MetaResult(MainFirstByte, out.meta)
        /\ out.tag = "ok" => (cur.len = out.arg /\ At(cur.buffer, 0) = MainFirstByte)

\* C27 witness: next(false) has read a style line of eight bytes or more,
\* the whole file, and refused it.
C27_Witness ==
    /\ MainRead
    /\ ~out.meta
    /\ MainFirstByte = STYLECHAR
    /\ out.tag = "err"
    /\ out.kind = "NotRecordLine"
    /\ pos = Len(file)
    /\ Len(file) >= 8

====
